---------------------------- MODULE Spec2Model ----------------------------
(***************************************************************************)
(* A model of the metric engine of midir: the dispatcher and the metric    *)
(* groups of utils/metric.py and the cohort loop of analyse.py.            *)
(*                                                                         *)
(* Arrays are numpy arrays of shape (N, C, H, W): a sequence of samples,   *)
(* each a sequence of channels, each a sequence of rows.  Array values are *)
(* integers, and every metric is computed in exact arithmetic:             *)
(*   - a rational is a pair <<num, den>> in lowest terms, den > 0;         *)
(*   - sqrt(q) of a rational q is the record [sqrt |-> q];                 *)
(*   - a mean of square roots of integers is a function from square-free   *)
(*     radicands b to the rational coefficient of sqrt(b) (square roots of *)
(*     distinct square-free integers are linearly independent over Q, so   *)
(*     two such functions are equal exactly when the reals are);           *)
(*   - a mean of Dice scores 2a/(o + 1e-3) is a function from o to the     *)
(*     rational c of the term c/(o + 1e-3).                                *)
(***************************************************************************)
EXTENDS Integers, Sequences, FiniteSets, TLC

VARIABLES
    inference_output_dir,  \* analyse.py: the subject directories on disk
    metric_groups,         \* the list of requested metric-group names
    pc,                    \* position of the running program
    d,                     \* analyse_output: index of the current subject
    data_dict,             \* the batch: role name -> array
    metric_result_step,    \* the outcome of the last dispatcher / group call
    metric_reporter,       \* MetricReporter: collected results and summary
    artifacts,             \* files written to save_dir, in order
    log,                   \* reporter operations called so far, in order
    exc,                   \* the exception that ended the run, and where
    args,                  \* inputs of a direct call of a metric function
    ret                    \* what that call returned

vars == <<inference_output_dir, metric_groups, pc, d, data_dict,
          metric_result_step, metric_reporter, artifacts, log, exc, args, ret>>

-----------------------------------------------------------------------------
\* The value a itself.  TLC evaluates a function constructor lazily, element
\* by element at each use; the comparison makes it evaluate the array once.
Evaluated(a) == IF a = a THEN a ELSE a

-----------------------------------------------------------------------------
(* Exact arithmetic *)

Abs(n) == IF n < 0 THEN -n ELSE n

Max2(a, b) == IF a >= b THEN a ELSE b

RECURSIVE GCD(_, _)
GCD(a, b) == IF b = 0 THEN a ELSE GCD(b, a % b)

\* The rational n/dn in lowest terms (dn > 0).
Rat(n, dn) ==
    LET g == GCD(Abs(n), dn)
    IN  <<n \div g, dn \div g>>

RatAdd(p, q) == Rat(p[1] * q[2] + q[1] * p[2], p[2] * q[2])

RatDivInt(p, k) == Rat(p[1], p[2] * k)

RECURSIVE SeqSum(_)
SeqSum(s) == IF s = <<>> THEN 0 ELSE s[1] + SeqSum(Tail(s))

RECURSIVE RatSeqSum(_)
RatSeqSum(s) == IF s = <<>> THEN <<0, 1>> ELSE RatAdd(s[1], RatSeqSum(Tail(s)))

RECURSIVE Flatten(_)
Flatten(ss) == IF ss = <<>> THEN <<>> ELSE ss[1] \o Flatten(Tail(ss))

\* The largest a with a*a dividing s (s > 0): sqrt(s) = a * sqrt(s / a^2).
SquarePart(s) ==
    LET A == {a \in 1..s : a * a <= s /\ s % (a * a) = 0}
    IN  CHOOSE a \in A : \A b \in A : b <= a

\* The sum of sqrt(s) over the integers s >= 0 of a sequence, divided by k:
\* radicand b |-> coefficient of sqrt(b).
RootMean(ss, k) ==
    LET pos  == {i \in 1..Len(ss) : ss[i] > 0}
        \* ss[i] = a * a * b with b square-free, as <<a, b>>
        part == Evaluated([i \in 1..Len(ss) |->
                    IF ss[i] = 0 THEN <<0, 0>>
                    ELSE LET a == SquarePart(ss[i]) IN <<a, ss[i] \div (a * a)>>])
        rads == {part[i][2] : i \in pos}
        coef(b) == SeqSum([i \in 1..Len(ss) |->
                       IF part[i][2] = b THEN part[i][1] ELSE 0])
    IN  [b \in rads |-> Rat(coef(b), k)]

-----------------------------------------------------------------------------
(* numpy arrays of shape (N, C, H, W) *)

\* (C, H, W) of one sample
SampleShape(s) == <<Len(s), Len(s[1]), Len(s[1][1])>>

Shape(a) == <<Len(a)>> \o SampleShape(a[1])

\* numpy broadcasting of two shapes: equal extents, or one of them 1.
Broadcastable(s, t) ==
    /\ Len(s) = Len(t)
    /\ \A k \in 1..Len(s) : s[k] = t[k] \/ s[k] = 1 \/ t[k] = 1

BIdx(k, len) == IF len = 1 THEN 1 ELSE k

\* What a call gives: the value it returns (err = ""), or the exception it
\* raises.
Ok(v) == [err |-> "", val |-> v]

Raise(e) == [err |-> e, val |-> <<>>]

\* x op y elementwise with broadcasting; ValueError when the shapes do not
\* broadcast (numpy: operands could not be broadcast together).  The extents
\* are taken sample by sample, so that a batch cropped to per-sample boxes
\* is combined with one cropped to the same boxes.
ArrOp(x, y, Op(_, _)) ==
    LET N  == Max2(Len(x), Len(y))
        xs(n) == x[BIdx(n, Len(x))]
        ys(n) == y[BIdx(n, Len(y))]
    IN  IF \/ ~Broadcastable(<<Len(x)>>, <<Len(y)>>)
           \/ \E n \in 1..N : ~Broadcastable(SampleShape(xs(n)), SampleShape(ys(n)))
        THEN Raise("ValueError")
        ELSE Ok(Evaluated([n \in 1..N |->
                LET sx == SampleShape(xs(n))
                    sy == SampleShape(ys(n))
                IN  [c \in 1..Max2(sx[1], sy[1]) |->
                     [i \in 1..Max2(sx[2], sy[2]) |->
                      [j \in 1..Max2(sx[3], sy[3]) |->
                        Op(xs(n)[BIdx(c, sx[1])][BIdx(i, sx[2])][BIdx(j, sx[3])],
                           ys(n)[BIdx(c, sy[1])][BIdx(i, sy[2])][BIdx(j, sy[3])])]]]]))

Times(a, b) == a * b

Minus(a, b) == a - b

Plus(a, b) == a + b

Left(a, b) == a

\* A variant of ArrMul that gives x, broadcast, whatever y holds.
ArrKeep(x, y) == ArrOp(x, y, Left)

ArrMul(x, y) == ArrOp(x, y, Times)

\* A variant of ArrSub that adds.
ArrAdd(x, y) == ArrOp(x, y, Plus)

ArrSub(x, y) == ArrOp(x, y, Minus)

\* ((x) ** 2).sum(axis=1): per sample and point, the sum over the channels,
\* flattened to one sequence over (n, i, j).
SumSqAxis1(a) ==
    Flatten([n \in 1..Len(a) |->
      Flatten([i \in 1..Len(a[n][1]) |->
        [j \in 1..Len(a[n][1][i]) |->
           SeqSum([c \in 1..Len(a[n]) |-> a[n][c][i][j] * a[n][c][i][j]])]])])

\* every element squared, flattened over (n, c, i, j)
AllSq(a) ==
    Flatten([n \in 1..Len(a) |->
      Flatten([c \in 1..Len(a[n]) |->
        Flatten([i \in 1..Len(a[n][c]) |->
          [j \in 1..Len(a[n][c][i]) |-> a[n][c][i][j] * a[n][c][i][j]]])])])

-----------------------------------------------------------------------------
(* Transformation accuracy and image intensity metrics *)

\* A variant of calculate_aee that adds the norms up and does not divide by
\* their number.
AeeSumOfNorms(x, y) ==
    LET df == ArrSub(x, y)
    IN  IF df.err # "" THEN df
        ELSE LET ss == Evaluated(SumSqAxis1(df.val)) IN Ok(RootMean(ss, 1))

\* np.sqrt(((x - y) ** 2).sum(axis=1)).mean()
calculate_aee(x, y) ==
    LET df == ArrSub(x, y)
    IN  IF df.err # "" THEN df
        ELSE LET ss == Evaluated(SumSqAxis1(df.val)) IN Ok(RootMean(ss, Len(ss)))

\* np.sqrt(((x - y) ** 2).sum(axis=1).mean())
calculate_rmse_dvf(x, y) ==
    LET df == ArrSub(x, y)
    IN  IF df.err # "" THEN df
        ELSE LET ss == Evaluated(SumSqAxis1(df.val))
             IN  Ok([sqrt |-> Rat(SeqSum(ss), Len(ss))])

\* np.sqrt(((x - y) ** 2).mean())
calculate_rmse(x, y) ==
    LET df == ArrSub(x, y)
    IN  IF df.err # "" THEN df
        ELSE LET ss == Evaluated(AllSq(df.val))
             IN  Ok([sqrt |-> Rat(SeqSum(ss), Len(ss))])

-----------------------------------------------------------------------------
(* Geometry utilities (utils/image.py) *)

\* The minimal axis-aligned box of the non-zero points of each sample of a
\* mask of shape (N, H, W): <<row start, row end, column start, column end>>,
\* starts inclusive and ends exclusive.  A sample without a non-zero point
\* gets the full extent.
bbox_from_mask(mask) ==
    Evaluated([n \in 1..Len(mask) |->
        LET m    == mask[n]
            rows == {i \in 1..Len(m) : \E j \in 1..Len(m[i]) : m[i][j] # 0}
            cols == {j \in 1..Len(m[1]) : \E i \in 1..Len(m) : m[i][j] # 0}
            lo(S) == CHOOSE v \in S : \A w \in S : v <= w
            hi(S) == CHOOSE v \in S : \A w \in S : v >= w
        IN  IF rows = {} THEN <<1, Len(m) + 1, 1, Len(m[1]) + 1>>
            ELSE <<lo(rows), hi(rows) + 1, lo(cols), hi(cols) + 1>>])

\* The array of shape (N, C, H, W) restricted, per sample, to the box.
bbox_crop(x, bbox) ==
    Evaluated([n \in 1..Len(x) |->
      [c \in 1..Len(x[n]) |->
        [i \in 1..(bbox[n][2] - bbox[n][1]) |->
          [j \in 1..(bbox[n][4] - bbox[n][3]) |->
             x[n][c][bbox[n][1] + i - 1][bbox[n][3] + j - 1]]]]])

\* roi_mask[:, 0, ...]
Channel0(a) == [n \in 1..Len(a) |-> a[n][1]]

-----------------------------------------------------------------------------
(* Transformation regularity metrics *)

Clamp(k, len) == IF k < 1 THEN 1 ELSE IF k > len THEN len ELSE k

\* A variant of calculate_jacobian_det that takes the determinant of the
\* Jacobian of the displacement alone, without the identity.
JacobianDetOfDisplacement(dvf) ==
    LET H == Len(dvf[1])
        W == Len(dvf[1][1])
        dW(c, i, j) == dvf[c][i][Clamp(j + 1, W)] - dvf[c][i][Clamp(j - 1, W)]
        dH(c, i, j) == dvf[c][Clamp(i + 1, H)][j] - dvf[c][Clamp(i - 1, H)][j]
    IN  [i \in 1..H |-> [j \in 1..W |->
            dW(1, i, j) * dH(2, i, j) - dH(1, i, j) * dW(2, i, j)]]

\* sitk.DisplacementFieldJacobianDeterminant of one 2D sample dvf[c][i][j]:
\* the determinant of identity + the Jacobian of the displacement, by central
\* differences (f[k+1] - f[k-1]) / 2 with the index clamped at the border.
\* Component c is the displacement along ITK axis c, and ITK axis 1 is the
\* last array axis.  The field returned is 4 * determinant, an integer.
calculate_jacobian_det(dvf) ==
    LET H == Len(dvf[1])
        W == Len(dvf[1][1])
        dW(c, i, j) == dvf[c][i][Clamp(j + 1, W)] - dvf[c][i][Clamp(j - 1, W)]
        dH(c, i, j) == dvf[c][Clamp(i + 1, H)][j] - dvf[c][Clamp(i - 1, H)][j]
    IN  Evaluated([i \in 1..H |-> [j \in 1..W |->
            (2 + dW(1, i, j)) * (2 + dH(2, i, j)) - dH(1, i, j) * dW(2, i, j)]])

\* np.gradient, times 2, at position k of the values f(1), ..., f(len),
\* len >= 2: central differences inside, one-sided differences at the ends.
Gradient2(f(_), k, len) ==
    IF k = 1 THEN 2 * (f(2) - f(1))
    ELSE IF k = len THEN 2 * (f(len) - f(len - 1))
    ELSE f(k + 1) - f(k - 1)

\* np.abs(np.gradient(jac_det)).mean() of a field given as 4 * determinant:
\* the gradient along both axes; ValueError when an axis is shorter than 2.
MeanAbsGradient(det4) ==
    LET H == Len(det4)
        W == Len(det4[1])
        g0 == Flatten([i \in 1..H |-> [j \in 1..W |->
                  LET col(k) == det4[k][j] IN Abs(Gradient2(col, i, H))]])
        g1 == Flatten([i \in 1..H |-> [j \in 1..W |->
                  LET row(k) == det4[i][k] IN Abs(Gradient2(row, j, W))]])
    IN  IF H < 2 \/ W < 2 THEN Raise("ValueError")
        ELSE Ok(Rat(SeqSum(g0) + SeqSum(g1), 8 * 2 * H * W))

\* (jac_det_n < 0).sum() / np.prod(jac_det_n.shape)
FoldingRatio(det4) ==
    LET H == Len(det4)
        W == Len(det4[1])
    IN  Rat(Cardinality({p \in (1..H) \X (1..W) : det4[p[1]][p[2]] < 0}), H * W)

\* The two means over the samples: <<folding ratio, mean |grad det|>>.
calculate_jacobian_metrics(dvf) ==
    LET dets    == Evaluated([n \in 1..Len(dvf) |-> calculate_jacobian_det(dvf[n])])
        mags    == Evaluated([n \in 1..Len(dvf) |-> MeanAbsGradient(dets[n])])
        folds   == [n \in 1..Len(dvf) |-> FoldingRatio(dets[n])]
    IN  IF \E n \in 1..Len(dvf) : mags[n].err # "" THEN Raise("ValueError")
        ELSE Ok(<<RatDivInt(RatSeqSum(folds), Len(dvf)),
                  RatDivInt(RatSeqSum([n \in 1..Len(dvf) |-> mags[n].val]), Len(dvf))>>)

-----------------------------------------------------------------------------
(* Metric groups.  A group call gives [err, val, reads, computed]: the      *)
(* exception raised or "", the dict returned, the keys of the batch whose   *)
(* arrays were read, in order, and the names of the metrics computed.       *)

\* metric_data[k]: KeyError when the batch holds no such key.
HasKey(metric_data, k) == k \in DOMAIN metric_data

GroupRaise(e, reads, computed) ==
    [err |-> e, val |-> <<>>, reads |-> reads, computed |-> computed]

GroupOk(v, reads) ==
    [err |-> "", val |-> v, reads |-> reads, computed |-> DOMAIN v]

\* A variant of DvfMaskCrop that crops the two fields without multiplying
\* them by roi_mask.
DvfCropOnly(dvf_pred, dvf_gt, roi_mask) ==
    LET mask_bbox == bbox_from_mask(Channel0(roi_mask))
    IN  Ok(<<bbox_crop(dvf_pred, mask_bbox), bbox_crop(dvf_gt, mask_bbox)>>)

\* dvf_metrics_fn up to the Jacobian metrics: the two displacement fields,
\* multiplied by roi_mask and then cropped to its bounding box when the batch
\* holds a roi_mask.
DvfMaskCrop(dvf_pred, dvf_gt, roi_mask) ==
    LET mask_bbox == bbox_from_mask(Channel0(roi_mask))
        pm == ArrMul(dvf_pred, roi_mask)
        gm == ArrMul(dvf_gt, roi_mask)
    IN  IF pm.err # "" THEN pm
        ELSE IF gm.err # "" THEN gm
        ELSE Ok(<<bbox_crop(pm.val, mask_bbox), bbox_crop(gm.val, mask_bbox)>>)

dvf_metrics_fn(metric_data) ==
    IF ~HasKey(metric_data, "dvf_pred") THEN GroupRaise("KeyError", <<>>, {})
    ELSE IF ~HasKey(metric_data, "dvf_gt")
    THEN GroupRaise("KeyError", <<"dvf_pred">>, {})
    ELSE
    LET masked == HasKey(metric_data, "roi_mask")
        reads  == IF masked THEN <<"dvf_pred", "dvf_gt", "roi_mask">>
                  ELSE <<"dvf_pred", "dvf_gt">>
        io     == IF masked
                  THEN DvfMaskCrop(metric_data["dvf_pred"], metric_data["dvf_gt"],
                                   metric_data["roi_mask"])
                  ELSE Ok(<<metric_data["dvf_pred"], metric_data["dvf_gt"]>>)
    IN  IF io.err # "" THEN GroupRaise(io.err, reads, {})
        ELSE
        LET dvf_pred == io.val[1]
            dvf_gt   == io.val[2]
            jac      == calculate_jacobian_metrics(dvf_pred)
            aee      == calculate_aee(dvf_pred, dvf_gt)
            rmse_dvf == calculate_rmse_dvf(dvf_pred, dvf_gt)
        IN  IF jac.err # "" THEN GroupRaise(jac.err, reads, {})
            ELSE IF aee.err # ""
            THEN GroupRaise(aee.err, reads, {"folding_ratio", "mean_negative_detJ"})
            ELSE GroupOk([k \in {"aee", "rmse_dvf", "folding_ratio", "mean_negative_detJ"} |->
                            CASE k = "aee" -> aee.val
                              [] k = "rmse_dvf" -> rmse_dvf.val
                              [] k = "folding_ratio" -> jac.val[1]
                              [] k = "mean_negative_detJ" -> jac.val[2]],
                         reads)

\* image_metrics_fn up to the metric: the two images, cropped to the bounding
\* box of roi_mask.
ImageCrop(img, img_pred, roi_mask) ==
    LET mask_bbox == bbox_from_mask(Channel0(roi_mask))
    IN  <<bbox_crop(img, mask_bbox), bbox_crop(img_pred, mask_bbox)>>

image_metrics_fn(metric_data) ==
    IF ~HasKey(metric_data, "target") THEN GroupRaise("KeyError", <<>>, {})
    ELSE IF ~HasKey(metric_data, "target_pred")
    THEN GroupRaise("KeyError", <<"target">>, {})
    ELSE
    LET masked == HasKey(metric_data, "roi_mask")
        reads  == IF masked THEN <<"target", "target_pred", "roi_mask">>
                  ELSE <<"target", "target_pred">>
        io     == IF masked
                  THEN ImageCrop(metric_data["target"], metric_data["target_pred"],
                                 metric_data["roi_mask"])
                  ELSE <<metric_data["target"], metric_data["target_pred"]>>
        rmse   == calculate_rmse(io[1], io[2])
    IN  IF rmse.err # "" THEN GroupRaise(rmse.err, reads, {})
        ELSE GroupOk([k \in {"rmse"} |-> rmse.val], reads)

-----------------------------------------------------------------------------
(* The dispatcher *)

\* the keys of metric_group_fns
metric_group_fns == {"dvf_metrics", "image_metrics"}

GroupCall(metric_group, metric_data) ==
    IF metric_group = "dvf_metrics" THEN dvf_metrics_fn(metric_data)
    ELSE image_metrics_fn(metric_data)

\* dict.update: the entries of new replace those of old with the same key.
DictUpdate(old, new) ==
    [k \in DOMAIN old \cup DOMAIN new |-> IF k \in DOMAIN new THEN new[k] ELSE old[k]]

\* The loop of metrics_fn from position k of the list, with what the earlier
\* iterations left: acc.val is metric_results, and acc.calls, acc.reads,
\* acc.computed and acc.replaced record the group functions invoked, the
\* batch keys read, the metrics computed and the entries of metric_results
\* that an update replaced.
RECURSIVE MetricsLoop(_, _, _, _)
MetricsLoop(metric_data, groups, k, acc) ==
    IF k > Len(groups) THEN acc
    ELSE IF groups[k] \notin metric_group_fns
    THEN [acc EXCEPT !.err = "KeyError", !.val = <<>>]
    ELSE LET r == GroupCall(groups[k], metric_data)
             seen == [acc EXCEPT !.calls = Append(@, groups[k]),
                                 !.reads = @ \o r.reads,
                                 !.computed = @ \cup r.computed]
         IN  IF r.err # "" THEN [seen EXCEPT !.err = r.err, !.val = <<>>]
             ELSE MetricsLoop(metric_data, groups, k + 1,
                      [seen EXCEPT !.val = DictUpdate(@, r.val),
                                   !.replaced = @ \cup (DOMAIN acc.val \cap DOMAIN r.val)])

metrics_fn(metric_data, groups) ==
    MetricsLoop(metric_data, groups, 1,
        [err |-> "", val |-> <<>>, calls |-> <<>>, reads |-> <<>>,
         computed |-> {}, replaced |-> {}])

\* A variant of BatchAfterGroup in which dvf_metrics_fn stores the masked
\* fields in the batch.
BatchMaskedInPlace(g, metric_data) ==
    IF g = "dvf_metrics" /\ HasKey(metric_data, "roi_mask")
    THEN [k \in DOMAIN metric_data |->
            IF k \in {"dvf_pred", "dvf_gt"}
            THEN ArrMul(metric_data[k], metric_data["roi_mask"]).val
            ELSE metric_data[k]]
    ELSE metric_data

\* The batch after the call of group function g: dvf_metrics_fn and
\* image_metrics_fn bind the masked and the cropped arrays to their local
\* names and store nothing in metric_data.
BatchAfterGroup(g, metric_data) == metric_data

\* The batch after the group functions named in calls were invoked in order.
RECURSIVE BatchAfter(_, _)
BatchAfter(metric_data, calls) ==
    IF calls = <<>> THEN metric_data
    ELSE BatchAfter(BatchAfterGroup(Head(calls), metric_data), Tail(calls))

\* analyse.py, the default of --metric_groups
default_metric_groups == <<"dvf_metrics", "image_metrics", "seg_metrics">>

-----------------------------------------------------------------------------
(* Bounds and input sets *)

GridH == 2

GridW == 3

\* slices of a subject of the cohort
NSlices == 2

\* subject directories of a cohort
MaxSubjects == 2

\* names in the list of metric groups
MaxGroups == 2

\* values of a displacement component, an intensity
DispVals == {0, 1, 3}

GtVals == {0, 1}

ImgVals == {0, 1, 2}

Points == (1..GridH) \X (1..GridW)

\* the k-th point of the grid in row-major order, cyclically
PointAt(k) == <<(((k - 1) \div GridW) % GridH) + 1, ((k - 1) % GridW) + 1>>

\* one sample (C, H, W): vector v at the points of P, vector b elsewhere
SampleHW(C, H, W, P, v, b) ==
    [c \in 1..C |-> [i \in 1..H |-> [j \in 1..W |->
        IF <<i, j>> \in P THEN v[c] ELSE b[c]]]]

Sample(C, P, v, b) == SampleHW(C, GridH, GridW, P, v, b)

\* the group names a list may hold: the dispatcher's two and the third name
\* of the default list of analyse.py
GroupNames == {"dvf_metrics", "image_metrics", "seg_metrics"}

RoleNames == {"dvf_pred", "dvf_gt", "target", "target_pred", "roi_mask"}

SeqsUpTo(S, n) == UNION {[1..k -> S] : k \in 0..n}

\* what may be wrong with the files of a subject: a file is missing, or the
\* roi_mask covers a single point
Defects == {"none", "dvf_pred", "target", "roi_mask", "thin_mask"}

\* The roi_mask of slice n of subject v: two points on a diagonal (a box of
\* two rows and two columns), or a single point.
MaskPoints(v, n, defect) ==
    LET c == ((v + n) % (GridW - 1)) + 1
    IN  IF defect = "thin_mask" THEN {PointAt(n)} ELSE {<<1, c>>, <<2, c + 1>>}

\* The batch of subject v, as inference leaves it in memory:
\* (NSlices, C, GridH, GridW) arrays.
SubjectBatch(v, defect) ==
    [k \in RoleNames |->
        [n \in 1..NSlices |->
            CASE k = "dvf_pred"    -> Sample(2, {PointAt(v + n)}, <<3, n>>, <<0, 0>>)
              [] k = "dvf_gt"      -> Sample(2, {PointAt(v)}, <<1, 0>>, <<0, 0>>)
              [] k = "target"      -> Sample(1, {PointAt(n)}, <<v>>, <<0>>)
              [] k = "target_pred" -> Sample(1, {}, <<0>>, <<1>>)
              [] k = "roi_mask"    -> Sample(1, MaskPoints(v, n, defect), <<1>>, <<0>>)]]

\* inference: np.moveaxis(x, [0, 1], [-2, -1]).squeeze() of an array
\* (N, C, H, W) with N, H, W > 1: (H, W, N, C), and (H, W, N) when C = 1.
save_nifti_layout(x) ==
    [i \in 1..Len(x[1][1]) |-> [j \in 1..Len(x[1][1][1]) |-> [n \in 1..Len(x) |->
        IF Len(x[1]) = 1 THEN x[n][1][i][j]
        ELSE [c \in 1..Len(x[1]) |-> x[n][c][i][j]]]]]

\* The directory of subject v: file name -> array on disk.
SubjectDir(v, defect) ==
    [k \in RoleNames \ {defect} |-> save_nifti_layout(SubjectBatch(v, defect)[k])]

\* the cohorts of at most MaxSubjects subjects
Cohorts ==
    UNION {{[v \in 1..n |-> SubjectDir(v, f[v])] : f \in [1..n -> Defects]} :
           n \in 0..MaxSubjects}

-----------------------------------------------------------------------------
(* analyse_output *)

\* The reshape of a loaded 2D array: dvf (H, W, N, 2) -> (N, 2, H, W),
\* the others (H, W, N) -> (N, 1, H, W).
Reshape(k, x) ==
    IF k \in {"dvf_gt", "dvf_pred"}
    THEN [n \in 1..Len(x[1][1]) |-> [c \in 1..Len(x[1][1][1]) |->
            [i \in 1..Len(x) |-> [j \in 1..Len(x[1]) |-> x[i][j][n][c]]]]]
    ELSE [n \in 1..Len(x[1][1]) |-> <<
            [i \in 1..Len(x) |-> [j \in 1..Len(x[1]) |-> x[i][j][n]]] >>]

NoResult == [err |-> "", val |-> <<>>, calls |-> <<>>, reads |-> <<>>,
             computed |-> {}, replaced |-> {}]

NoException == [at |-> "", err |-> ""]

Init ==
    /\ inference_output_dir \in Cohorts
    /\ metric_groups \in SeqsUpTo(GroupNames, MaxGroups) \cup {default_metric_groups}
    /\ pc = IF inference_output_dir = <<>> THEN "summarise" ELSE "load"
    /\ d = 1
    /\ data_dict = <<>>
    /\ metric_result_step = NoResult
    /\ metric_reporter = [id_list |-> 1..Len(inference_output_dir),
                          collected |-> <<>>, summary |-> <<>>]
    /\ artifacts = <<>>
    /\ log = <<>>
    /\ exc = NoException
    /\ args = <<>>
    /\ ret = <<>>

\* lines 23-46: load the files of subject d and reshape them; the shape of
\* dvf_pred is read first, a KeyError when the directory holds no dvf_pred.
LoadSubject ==
    /\ pc = "load"
    /\ LET files == inference_output_dir[d]
       IN  IF "dvf_pred" \notin DOMAIN files
           THEN /\ pc' = "raised"
                /\ exc' = [at |-> "load", err |-> "KeyError"]
                /\ data_dict' = files
           ELSE /\ pc' = "measure"
                /\ exc' = exc
                /\ data_dict' = [k \in DOMAIN files |-> Reshape(k, files[k])]
    /\ UNCHANGED <<inference_output_dir, metric_groups, d, metric_result_step,
                   metric_reporter, artifacts, log, args, ret>>

\* Measure with the failure of a subject skipped: the loop goes on to the next
\* subject.
MeasureSkipFailed ==
    /\ pc = "measure"
    /\ metric_result_step' = metrics_fn(data_dict, metric_groups)
    /\ IF metric_result_step'.err = ""
       THEN /\ pc' = "collect"
            /\ d' = d
       ELSE /\ pc' = IF d = Len(inference_output_dir) THEN "summarise" ELSE "load"
            /\ d' = d + 1
    /\ UNCHANGED <<inference_output_dir, metric_groups, data_dict,
                   metric_reporter, artifacts, log, exc, args, ret>>

\* line 49: the dispatcher on the batch of subject d; its exception ends the run.
Measure ==
    /\ pc = "measure"
    /\ metric_result_step' = metrics_fn(data_dict, metric_groups)
    /\ data_dict' = BatchAfter(data_dict, metric_result_step'.calls)
    /\ pc' = IF metric_result_step'.err # "" THEN "raised" ELSE "collect"
    /\ exc' = IF metric_result_step'.err # ""
              THEN [at |-> "measure", err |-> metric_result_step'.err]
              ELSE exc
    /\ UNCHANGED <<inference_output_dir, metric_groups, d,
                   metric_reporter, artifacts, log, args, ret>>

\* MetricReporter.collect: append the result; it fails when the key set
\* differs from that of the results collected before.
collect(reporter, result) ==
    IF reporter.collected # <<>> /\ DOMAIN reporter.collected[1] # DOMAIN result
    THEN Raise("AggregationInconsistency")
    ELSE Ok([reporter EXCEPT !.collected = Append(@, result)])

\* Collect leaving the loop after the first subject.
CollectAndLeave ==
    /\ pc = "collect"
    /\ metric_reporter' = collect(metric_reporter, metric_result_step.val).val
    /\ d' = d + 1
    /\ pc' = "summarise"
    /\ log' = Append(log, "collect")
    /\ UNCHANGED <<inference_output_dir, metric_groups, data_dict,
                   metric_result_step, artifacts, exc, args, ret>>

\* line 50, and the loop's next iteration or exit
Collect ==
    /\ pc = "collect"
    /\ LET r == collect(metric_reporter, metric_result_step.val)
       IN  IF r.err # ""
           THEN /\ pc' = "raised"
                /\ exc' = [at |-> "collect", err |-> r.err]
                /\ UNCHANGED <<metric_reporter, d>>
           ELSE /\ metric_reporter' = r.val
                /\ exc' = exc
                /\ d' = d + 1
                /\ pc' = IF d = Len(inference_output_dir) THEN "summarise" ELSE "load"
    /\ log' = Append(log, "collect")
    /\ UNCHANGED <<inference_output_dir, metric_groups, data_dict,
                   metric_result_step, artifacts, args, ret>>

\* MetricReporter.summarise: per metric name, the values of all collected
\* subjects, of which the summary holds the mean and standard deviation.
summarise(reporter) ==
    [reporter EXCEPT !.summary =
        IF reporter.collected = <<>> THEN <<>>
        ELSE [m \in DOMAIN reporter.collected[1] |->
                [s \in 1..Len(reporter.collected) |-> reporter.collected[s][m]]]]

\* line 53
Summarise ==
    /\ pc = "summarise"
    /\ metric_reporter' = summarise(metric_reporter)
    /\ log' = Append(log, "summarise")
    /\ pc' = "save_mean_std"
    /\ UNCHANGED <<inference_output_dir, metric_groups, d, data_dict,
                   metric_result_step, artifacts, exc, args, ret>>

\* line 54
SaveMeanStd ==
    /\ pc = "save_mean_std"
    /\ artifacts' = Append(artifacts,
           [file |-> "mean_std", subjects |-> Len(metric_reporter.collected),
            rows |-> metric_reporter.summary])
    /\ log' = Append(log, "save_mean_std")
    /\ pc' = "save_df"
    /\ UNCHANGED <<inference_output_dir, metric_groups, d, data_dict,
                   metric_result_step, metric_reporter, exc, args, ret>>

\* line 55
SaveDf ==
    /\ pc = "save_df"
    /\ artifacts' = Append(artifacts,
           [file |-> "table", subjects |-> Len(metric_reporter.collected),
            rows |-> metric_reporter.collected])
    /\ log' = Append(log, "save_df")
    /\ pc' = "done"
    /\ UNCHANGED <<inference_output_dir, metric_groups, d, data_dict,
                   metric_result_step, metric_reporter, exc, args, ret>>

-----------------------------------------------------------------------------
(* Direct calls of the two metric groups on one batch *)

\* the points of the box spanned by p and q
Rect(p, q) ==
    {r \in Points : /\ (p[1] <= r[1] /\ r[1] <= q[1]) \/ (q[1] <= r[1] /\ r[1] <= p[1])
                    /\ (p[2] <= r[2] /\ r[2] <= q[2]) \/ (q[2] <= r[2] /\ r[2] <= p[2])}

\* the masks drawn: the corners p, q of a box alone, or the whole box
MaskSets == {{p, q} : p \in Points, q \in Points} \cup {Rect(p, q) : p \in Points, q \in Points}

\* one-sample batches of displacement fields: the prediction differs from 0
\* at one point, the ground truth is a constant shift
DvfBatchesNoMask ==
    {[k \in {"dvf_pred", "dvf_gt"} |->
        IF k = "dvf_pred" THEN <<Sample(2, {p}, v, <<0, 0>>)>>
        ELSE <<Sample(2, {}, g, g)>>] :
     p \in Points, v \in DispVals \X DispVals, g \in GtVals \X GtVals}

\* one-sample batches in which the ground truth is the prediction
DvfSelfBatchesNoMask ==
    {[k \in {"dvf_pred", "dvf_gt"} |-> <<Sample(2, {p}, <<a, 1>>, <<0, 0>>)>>] :
     p \in Points, a \in DispVals}

\* one-sample batches of images: the target differs from 0 at one point, the
\* prediction is constant
ImageBatchesNoMask ==
    {[k \in {"target", "target_pred"} |->
        IF k = "target" THEN <<Sample(1, {p}, <<a>>, <<0>>)>>
        ELSE <<Sample(1, {}, <<b>>, <<b>>)>>] :
     p \in Points, a \in ImgVals, b \in ImgVals}

WithMask(batch, P) ==
    [k \in DOMAIN batch \cup {"roi_mask"} |->
        IF k = "roi_mask" THEN <<Sample(1, P, <<1>>, <<0>>)>> ELSE batch[k]]

GroupBatches ==
    LET plain == DvfBatchesNoMask \cup DvfSelfBatchesNoMask \cup ImageBatchesNoMask
    IN  plain \cup {WithMask(b, P) : b \in plain, P \in MaskSets}

InitGroup ==
    /\ data_dict \in GroupBatches
    /\ pc = "call"
    /\ inference_output_dir = <<>>
    /\ metric_groups = <<>>
    /\ d = 1
    /\ metric_result_step = NoResult
    /\ metric_reporter = [id_list |-> {}, collected |-> <<>>, summary |-> <<>>]
    /\ artifacts = <<>>
    /\ log = <<>>
    /\ exc = NoException
    /\ args = <<>>
    /\ ret = <<>>

CallDvfMetricsFn ==
    /\ pc = "call"
    /\ ret' = dvf_metrics_fn(data_dict)
    /\ pc' = "dvf_returned"
    /\ UNCHANGED <<inference_output_dir, metric_groups, d, data_dict,
                   metric_result_step, metric_reporter, artifacts, log, exc, args>>

CallImageMetricsFn ==
    /\ pc = "call"
    /\ ret' = image_metrics_fn(data_dict)
    /\ pc' = "image_returned"
    /\ UNCHANGED <<inference_output_dir, metric_groups, d, data_dict,
                   metric_result_step, metric_reporter, artifacts, log, exc, args>>

NextGroup == CallDvfMetricsFn \/ CallImageMetricsFn

SpecGroup == InitGroup /\ [][NextGroup]_vars

-----------------------------------------------------------------------------
(* Segmentation metrics.  A stack of label masks has shape (H, W, N): rows, *)
(* each a sequence of columns, each a sequence over the slices.             *)

\* (mask == label_class).astype(np.float32)
LabelPos(mask, label_class) ==
    [i \in 1..Len(mask) |-> [j \in 1..Len(mask[i]) |-> [n \in 1..Len(mask[i][j]) |->
        IF mask[i][j][n] = label_class THEN 1 ELSE 0]]]

\* np.sum(a, axis=(0, 1)) of an array (H, W, N): one sum per slice
SumAxes01(a) ==
    [n \in 1..Len(a[1][1]) |->
        SeqSum(Flatten([i \in 1..Len(a) |-> [j \in 1..Len(a[i]) |-> a[i][j][n]]]))]

\* np.mean(2 * a / (o + 1e-3)) over the slices, a and o sequences of integers:
\* denominator part o |-> rational c, for the number that is the sum over o
\* of c / (o + 1e-3).  Slices with a = 0 add nothing; the value is 0 exactly
\* when the function is empty.
DiceMean(a, o) ==
    LET N   == Len(a)
        pos == {n \in 1..N : a[n] > 0}
    IN  [v \in {o[n] : n \in pos} |->
            Rat(SeqSum([n \in 1..N |-> IF o[n] = v THEN 2 * a[n] ELSE 0]), N)]

\* The product and the sum of the two arrays broadcast as every numpy
\* operator does.
categorical_dice_stack(mask1, mask2, label_class) ==
    LET mask1_pos == LabelPos(mask1, label_class)
        mask2_pos == LabelPos(mask2, label_class)
        prod      == ArrOp(<<mask1_pos>>, <<mask2_pos>>, Times)
        sum       == ArrOp(<<mask1_pos>>, <<mask2_pos>>, Plus)
    IN  IF prod.err # "" THEN prod
        ELSE LET pos1and2 == SumAxes01(prod.val[1])
                 pos1or2  == SumAxes01(sum.val[1])
             IN  Ok(DiceMean(pos1and2, pos1or2))

\* nan, what numpy gives for 0.0 / 0.0 and for the mean of no number (a
\* warning, no exception): written as the quotient 0/0, which no rational in
\* lowest terms is.
NaN == <<0, 0>>

\* 2 * np.sum(mask1_pos * mask2_pos) / (np.sum(mask1_pos) + np.sum(mask2_pos)):
\* a rational, or nan when the label is in neither mask.
categorical_dice_volume(mask1, mask2, label_class) ==
    LET mask1_pos == LabelPos(mask1, label_class)
        mask2_pos == LabelPos(mask2, label_class)
        prod      == ArrOp(<<mask1_pos>>, <<mask2_pos>>, Times)
        total     == SeqSum(SumAxes01(mask1_pos)) + SeqSum(SumAxes01(mask2_pos))
    IN  IF prod.err # "" THEN prod
        ELSE IF total = 0 THEN Ok(NaN)
        ELSE Ok(Rat(2 * SeqSum(SumAxes01(prod.val[1])), total))

\* pixel <<x, y>> = <<column, row>> of a 2D mask is inside it and not 0
IsSet(image, x, y) ==
    /\ y \in 1..Len(image)
    /\ x \in 1..Len(image[1])
    /\ image[y][x] # 0

\* the 8 neighbours of a pixel, clockwise from the one above
Ring == <<<<0, -1>>, <<1, -1>>, <<1, 0>>, <<1, 1>>, <<0, 1>>, <<-1, 1>>, <<-1, 0>>, <<-1, -1>>>>

\* How often the border following of cv2.findContours (8-connected regions,
\* CHAIN_APPROX_NONE) passes the pixel p of a region without holes: once per
\* run of background pixels around p that holds one of its 4-neighbours.  A
\* pixel inside the region is never passed, an inner pixel of a line one
\* pixel wide is passed twice.
Passes(image, p) ==
    LET bg(k)  == ~IsSet(image, p[1] + Ring[k][1], p[2] + Ring[k][2])
        nxt(k) == (k % 8) + 1
        prv(k) == ((k + 6) % 8) + 1
        starts == {k \in 1..8 : bg(k) /\ ~bg(prv(k))}
    IN  IF \A k \in 1..8 : bg(k) THEN 1
        ELSE Cardinality({k \in starts : k % 2 = 1 \/ bg(nxt(k))})

\* contour1_pts: the points of all outer contours of the mask, stacked
contour_pts(image) ==
    LET H == Len(image)
        W == Len(image[1])
        at(k) == <<((k - 1) % W) + 1, ((k - 1) \div W) + 1>>
    IN  Flatten([k \in 1..(H * W) |->
            IF IsSet(image, at(k)[1], at(k)[2])
            THEN [m \in 1..Passes(image, at(k)) |-> at(k)]
            ELSE <<>>])

\* np.linalg.norm(p - q), squared
Dist2(p, q) == (p[1] - q[1]) * (p[1] - q[1]) + (p[2] - q[2]) * (p[2] - q[2])

\* the least, and the greatest, of the integers f(1), ..., f(n), n >= 1
MinOver(f(_), n) == CHOOSE v \in {f(k) : k \in 1..n} : \A k \in 1..n : v <= f(k)

MaxOver(f(_), n) == CHOOSE v \in {f(k) : k \in 1..n} : \A k \in 1..n : v >= f(k)

\* scipy directed_hausdorff(u, v)[0], squared: the greatest over the points of
\* u of the distance to the nearest point of v
directed_hausdorff(u, v) ==
    LET nearest(i) == LET to(j) == Dist2(u[i], v[j]) IN MinOver(to, Len(v))
    IN  MaxOver(nearest, Len(u))

\* the sum of two means of square roots, times the rational q
RootSumTimes(f, g, q) ==
    LET co(h, b) == IF b \in DOMAIN h THEN h[b] ELSE <<0, 1>>
        sum(b)   == RatAdd(co(f, b), co(g, b))
    IN  [b \in DOMAIN f \cup DOMAIN g |-> Rat(sum(b)[1] * q[1], sum(b)[2] * q[2])]

\* <<mean_contour_dist * dx, hausdorff_dist * dx>>; IndexError (contours[0])
\* when a mask has no contour.
contour_distances_2d(image1, image2, dx) ==
    LET contour1_pts == Evaluated(contour_pts(image1))
        contour2_pts == Evaluated(contour_pts(image2))
        n1 == Len(contour1_pts)
        n2 == Len(contour2_pts)
        \* np.min(dist_matrix, axis=0), np.min(dist_matrix, axis=1), squared
        min0 == [j \in 1..n2 |->
                    LET to(i) == Dist2(contour1_pts[i], contour2_pts[j]) IN MinOver(to, n1)]
        min1 == [i \in 1..n1 |->
                    LET to(j) == Dist2(contour1_pts[i], contour2_pts[j]) IN MinOver(to, n2)]
        hausdorff_dist == directed_hausdorff(contour1_pts, contour2_pts)
    IN  IF n1 = 0 \/ n2 = 0 THEN Raise("IndexError")
        ELSE Ok(<<RootSumTimes(RootMean(min0, n2), RootMean(min1, n1), <<dx, 2>>),
                  [sqrt |-> Rat(hausdorff_dist * dx * dx, 1)]>>)

\* stack[:, :, n] of a stack (H, W, N)
SliceOf(stack, n) == [i \in 1..Len(stack) |-> [j \in 1..Len(stack[i]) |-> stack[i][j][n]]]

\* np.sum(stack[:, :, n]) > 0 of a stack of 0/1
SliceNotEmpty(stack, n) ==
    \E i \in 1..Len(stack) : \E j \in 1..Len(stack[i]) : stack[i][j][n] > 0

\* np.mean of a list of means of square roots; nan for the empty list
MeanOfRoots(fs) ==
    LET rads == UNION {DOMAIN fs[k] : k \in 1..Len(fs)}
        co(k, b) == IF b \in DOMAIN fs[k] THEN fs[k][b] ELSE <<0, 1>>
    IN  IF fs = <<>> THEN NaN
        ELSE [b \in rads |->
                RatDivInt(RatSeqSum([k \in 1..Len(fs) |-> co(k, b)]), Len(fs))]

\* sqrt(q) of a rational q = n/1 as a mean of square roots
RootOf(r) == RootMean(<<r.sqrt[1]>>, 1)

\* The loop of contour_distances_stack over the slices kept, in order, and
\* the two means it returns; calls lists the slices contour_distances_2d was
\* called on.
ContourStackMeans(stack1, stack2, dx, kept) ==
    LET res == Evaluated([k \in 1..Len(kept) |->
                   contour_distances_2d(SliceOf(stack1, kept[k]), SliceOf(stack2, kept[k]), dx)])
        bad == {k \in 1..Len(kept) : res[k].err # ""}
        first == CHOOSE k \in bad : \A l \in bad : k <= l
    IN  IF bad # {}
        THEN [err |-> res[first].err, val |-> <<>>, calls |-> SubSeq(kept, 1, first)]
        ELSE [err |-> "",
              val |-> <<MeanOfRoots([k \in 1..Len(kept) |-> res[k].val[1]]),
                        MeanOfRoots([k \in 1..Len(kept) |-> RootOf(res[k].val[2])])>>,
              calls |-> kept]

\* A variant of contour_distances_stack that skips a slice only when both
\* masks are empty on it.
ContourStackSkipsBothEmpty(stack1, stack2, label_class, dx) ==
    LET s1 == LabelPos(stack1, label_class)
        s2 == LabelPos(stack2, label_class)
        N  == Len(stack1[1][1])
        Keep(n) == SliceNotEmpty(s1, n) \/ SliceNotEmpty(s2, n)
    IN  IF N # Len(stack2[1][1])
        THEN [err |-> "AssertionError", val |-> <<>>, calls |-> <<>>]
        ELSE ContourStackMeans(s1, s2, dx, SelectSeq([n \in 1..N |-> n], Keep))

\* AssertionError when the slice counts differ; the slices where either mask
\* is empty for the label are skipped.
contour_distances_stack(stack1, stack2, label_class, dx) ==
    LET s1 == LabelPos(stack1, label_class)
        s2 == LabelPos(stack2, label_class)
        N  == Len(stack1[1][1])
        Keep(n) == SliceNotEmpty(s1, n) /\ SliceNotEmpty(s2, n)
    IN  IF N # Len(stack2[1][1])
        THEN [err |-> "AssertionError", val |-> <<>>, calls |-> <<>>]
        ELSE ContourStackMeans(s1, s2, dx, SelectSeq([n \in 1..N |-> n], Keep))

-----------------------------------------------------------------------------
(* Direct calls of the two-input metric functions *)

\* a field (N, 2, GridH, W) that is v at its first point and 0 elsewhere
Field(N, W, v) == [n \in 1..N |-> SampleHW(2, GridH, W, {<<1, 1>>}, v, <<0, 0>>)]

\* pairs of fields whose sample counts and widths may differ
DvfArgs ==
    {[kind |-> "dvf", x |-> Field(Nx, Wx, <<a, 0>>), y |-> Field(Ny, Wy, <<b, 0>>)] :
        Nx \in {1, NSlices}, Ny \in {1, NSlices},
        Wx \in {GridW - 1, GridW}, Wy \in {GridW - 1, GridW},
        a \in DispVals, b \in GtVals}

\* pairs of fields (1, 2, 4, 4): y a constant shift, x equal to y but at one
\* grid point, where it differs by a vector of length 3
ScenarioArgs ==
    {[kind |-> "dvf",
      x |-> <<SampleHW(2, 4, 4, {p}, <<g[1] + e[1], g[2] + e[2]>>, g)>>,
      y |-> <<SampleHW(2, 4, 4, {}, g, g)>>] :
        p \in (1..4) \X (1..4), g \in GtVals \X GtVals,
        e \in {<<3, 0>>, <<0, 3>>, <<-3, 0>>, <<0, -3>>}}

\* the shifts of the constant fields drawn
ConstShifts == GtVals \X DispVals

\* batches of fields (N, 2, GridH, GridW): sample n is the constant shift
\* shift[n], but for the vector <<3, 1>> at the points of P
FieldArgs ==
    UNION {{[kind |-> "field",
             dvf |-> [n \in 1..N |-> Sample(2, P, <<3, 1>>, shift[n])]] :
                shift \in [1..N -> ConstShifts], P \in {{}} \cup {{p} : p \in Points}} :
           N \in 1..NSlices}

\* what a slice of a stack holds of label 1: nothing, one pixel, two pixels
StackRegions == {{}, {<<1, 1>>}, {<<1, 1>>, <<1, 2>>}}

\* the stacks (GridH, W, N) of label masks with labels 0 and 1
Stacks(W) ==
    UNION {{[i \in 1..GridH |-> [j \in 1..W |-> [n \in 1..N |->
                IF <<i, j>> \in r[n] THEN 1 ELSE 0]]] : r \in [1..N -> StackRegions]} :
           N \in 1..NSlices}

StackArgs ==
    {[kind |-> "stack", mask1 |-> m1, mask2 |-> m2, label_class |-> l] :
        m1 \in Stacks(GridW), m2 \in Stacks(GridW) \cup Stacks(GridW - 1), l \in {0, 1}}

\* the 2D binary mask (GridH, GridW) that is 1 on the points <<row, column>> of P
Image2D(P) == [i \in 1..GridH |-> [j \in 1..GridW |-> IF <<i, j>> \in P THEN 1 ELSE 0]]

\* pairs of 2D masks: image1 empty or a box with a corner at <<1, 1>>, image2
\* empty or any of the masks drawn
SliceArgs ==
    {[kind |-> "slice", image1 |-> Image2D(P), image2 |-> Image2D(Q), dx |-> dx] :
        P \in {Rect(<<1, 1>>, q) : q \in Points} \cup {{}},
        Q \in MaskSets \cup {{}}, dx \in {1, 2}}

InitCalls ==
    /\ args \in DvfArgs \cup ScenarioArgs \cup StackArgs \cup SliceArgs \cup FieldArgs
    /\ pc = "call"
    /\ inference_output_dir = <<>>
    /\ metric_groups = <<>>
    /\ d = 1
    /\ data_dict = <<>>
    /\ metric_result_step = NoResult
    /\ metric_reporter = [id_list |-> {}, collected |-> <<>>, summary |-> <<>>]
    /\ artifacts = <<>>
    /\ log = <<>>
    /\ exc = NoException
    /\ ret = <<>>

Returned(fn, out) ==
    /\ ret' = out
    /\ pc' = fn
    /\ UNCHANGED <<inference_output_dir, metric_groups, d, data_dict,
                   metric_result_step, metric_reporter, artifacts, log, exc, args>>

CallCalculateAee ==
    /\ pc = "call"
    /\ args.kind = "dvf"
    /\ Returned("calculate_aee", calculate_aee(args.x, args.y))

CallCalculateRmseDvf ==
    /\ pc = "call"
    /\ args.kind = "dvf"
    /\ Returned("calculate_rmse_dvf", calculate_rmse_dvf(args.x, args.y))

CallCalculateJacobianMetrics ==
    /\ pc = "call"
    /\ args.kind = "field"
    /\ Returned("calculate_jacobian_metrics", calculate_jacobian_metrics(args.dvf))

CallCategoricalDiceStack ==
    /\ pc = "call"
    /\ args.kind = "stack"
    /\ Returned("categorical_dice_stack",
                categorical_dice_stack(args.mask1, args.mask2, args.label_class))

CallCategoricalDiceVolume ==
    /\ pc = "call"
    /\ args.kind = "stack"
    /\ Returned("categorical_dice_volume",
                categorical_dice_volume(args.mask1, args.mask2, args.label_class))

\* dx is left at its default, 1
CallContourDistancesStack ==
    /\ pc = "call"
    /\ args.kind = "stack"
    /\ Returned("contour_distances_stack",
                contour_distances_stack(args.mask1, args.mask2, args.label_class, 1))

CallContourDistances2d ==
    /\ pc = "call"
    /\ args.kind = "slice"
    /\ Returned("contour_distances_2d",
                contour_distances_2d(args.image1, args.image2, args.dx))

NextCalls ==
    \/ CallCalculateAee
    \/ CallCalculateRmseDvf
    \/ CallCalculateJacobianMetrics
    \/ CallCategoricalDiceStack
    \/ CallCategoricalDiceVolume
    \/ CallContourDistancesStack
    \/ CallContourDistances2d

SpecCalls == InitCalls /\ [][NextCalls]_vars

-----------------------------------------------------------------------------
Next == LoadSubject \/ Measure \/ Collect \/ Summarise \/ SaveMeanStd \/ SaveDf

Spec == Init /\ [][Next]_vars

-----------------------------------------------------------------------------
(* Properties of the dispatcher inside a run of analyse_output *)

\* The dispatcher has just been called on the batch of subject d.
Measured == pc = "collect" \/ (pc = "raised" /\ exc.at = "measure")

UnknownGroupListed ==
    \E k \in 1..Len(metric_groups) : metric_groups[k] \notin metric_group_fns

\* the arrays a group reads from the batch
RequiredArrays(g) ==
    IF g = "dvf_metrics" THEN {"dvf_pred", "dvf_gt"}
    ELSE IF g = "image_metrics" THEN {"target", "target_pred"}
    ELSE {}

RequiredArrayAbsent ==
    \E k \in 1..Len(metric_groups) : RequiredArrays(metric_groups[k]) \ DOMAIN data_dict # {}

\* C1: whenever the list of groups holds an unknown name, at any position, the
\* dispatcher fails, and it has then invoked no group function and read no
\* array of the batch.
C1_UnknownGroupFailsBeforeAnyWork ==
    (Measured /\ UnknownGroupListed) =>
        /\ metric_result_step.err = "KeyError"
        /\ metric_result_step.calls = <<>>
        /\ metric_result_step.reads = <<>>

\* C2: whenever an array required by a requested group is absent from the
\* batch, the dispatcher fails and no metric of any group has been computed.
C2_MissingArrayFailsBeforeAnyMetric ==
    (Measured /\ RequiredArrayAbsent) =>
        /\ metric_result_step.err # ""
        /\ metric_result_step.computed = {}

\* C3: whenever two group invocations of one dispatcher call produce the same
\* metric name, the call fails instead of returning a mapping in which the
\* later value replaced the earlier one.
C3_NameCollisionFailsFast ==
    (Measured /\ metric_result_step.replaced # {}) => metric_result_step.err # ""

-----------------------------------------------------------------------------
(* Properties of analyse_output *)

\* what the dispatcher gives for the subject directory s of the cohort
DispatchOf(s) ==
    LET files == inference_output_dir[s]
    IN  metrics_fn([k \in DOMAIN files |-> Reshape(k, files[k])], metric_groups)

\* the subjects of the cohort whose files do not load or whose metrics fail
FailedSubjects ==
    {s \in 1..Len(inference_output_dir) :
        \/ "dvf_pred" \notin DOMAIN inference_output_dir[s]
        \/ DispatchOf(s).err # ""}

\* the reporter operations of a run over n subjects that reaches its end
FullLog(n) ==
    [k \in 1..(n + 3) |->
        IF k <= n THEN "collect"
        ELSE IF k = n + 1 THEN "summarise"
        ELSE IF k = n + 2 THEN "save_mean_std"
        ELSE "save_df"]

\* C4: collect is called once per subject directory, in order, each time with
\* the complete result of that subject's dispatch (checked for the result
\* just collected, and for all of them at the end of the run); summarise,
\* save_mean_std and the table save follow once each, in that order, after
\* every subject was collected, so that from summarise on the number of
\* collected results is the number of subjects.
C4_CollectOncePerSubjectThenSummarise ==
    /\ Len(log) <= Len(inference_output_dir) + 3
    /\ log = SubSeq(FullLog(Len(inference_output_dir)), 1, Len(log))
    /\ Len(metric_reporter.collected) = Cardinality({k \in 1..Len(log) : log[k] = "collect"})
    /\ (pc \in {"load", "summarise"} /\ metric_reporter.collected # <<>>) =>
          LET s == Len(metric_reporter.collected)
          IN  /\ DispatchOf(s).err = ""
              /\ metric_reporter.collected[s] = DispatchOf(s).val
    /\ pc = "done" =>
          \A s \in 1..Len(inference_output_dir) :
              /\ DispatchOf(s).err = ""
              /\ metric_reporter.collected[s] = DispatchOf(s).val
    /\ pc \in {"save_mean_std", "save_df", "done"} =>
          Len(metric_reporter.collected) = Len(inference_output_dir)
    /\ Len(artifacts) = Cardinality({k \in 1..Len(log) : log[k] \in {"save_mean_std", "save_df"}})

\* A run over two subjects has ended with both collected and both files written.
C4_Witness ==
    /\ pc = "done"
    /\ Len(inference_output_dir) = 2
    /\ Len(metric_reporter.collected) = 2
    /\ metric_reporter.collected[1] # <<>>
    /\ Len(artifacts) = 2

\* C5: when the metric computation of any subject of the cohort fails, no
\* summary and no table is ever written (the run ends with the exception),
\* and a file that is written covers every subject of the cohort.
C5_NoArtifactOfAPartialCohort ==
    /\ artifacts # <<>> => FailedSubjects = {}
    /\ \A a \in 1..Len(artifacts) : artifacts[a].subjects = Len(inference_output_dir)

\* The dispatcher failed on the second subject, the first having been collected.
C5_Witness ==
    /\ pc = "raised"
    /\ exc.at = "measure"
    /\ d = 2
    /\ Len(metric_reporter.collected) = 1
    /\ artifacts = <<>>

-----------------------------------------------------------------------------
(* Properties of the metric groups called on one batch *)

Masked == "roi_mask" \in DOMAIN data_dict

IsDvfBatch == {"dvf_pred", "dvf_gt"} \subseteq DOMAIN data_dict

IsImageBatch == {"target", "target_pred"} \subseteq DOMAIN data_dict

\* the bounding boxes of the roi_mask of the batch, one per sample
MaskBox == bbox_from_mask(Channel0(data_dict["roi_mask"]))

\* The array x of the batch multiplied by roi_mask and restricted to the
\* bounding box, written point by point from the arrays of the batch.
MaskedInBox(x) ==
    LET m   == data_dict["roi_mask"]
        box == MaskBox
    IN  Evaluated([n \in 1..Len(x) |-> [c \in 1..Len(x[n]) |->
          [i \in 1..(box[n][2] - box[n][1]) |-> [j \in 1..(box[n][4] - box[n][3]) |->
              x[n][c][box[n][1] + i - 1][box[n][3] + j - 1]
                  * m[n][1][box[n][1] + i - 1][box[n][3] + j - 1]]]]])

\* some point of a bounding box where roi_mask is 0 and the array x is not
OffMaskValueInBox(x) ==
    \E n \in 1..Len(x) : \E c \in 1..Len(x[n]) :
      \E i \in MaskBox[n][1]..(MaskBox[n][2] - 1), j \in MaskBox[n][3]..(MaskBox[n][4] - 1) :
          /\ data_dict["roi_mask"][n][1][i][j] = 0
          /\ x[n][c][i][j] # 0

\* C6: with a roi_mask in the batch, image_metrics_fn returns the rmse of the
\* two images multiplied by the mask and cropped to its bounding box.
C6_ImageMetricsMasksAndCrops ==
    (pc = "image_returned" /\ IsImageBatch /\ Masked) =>
        /\ ret.err = ""
        /\ ret.val["rmse"] = calculate_rmse(MaskedInBox(data_dict["target"]),
                                            MaskedInBox(data_dict["target_pred"])).val

\* C7: dvf_metrics_fn returns aee, rmse_dvf, folding_ratio and
\* mean_negative_detJ of the two fields multiplied by roi_mask and then
\* cropped to its bounding box, and of the two fields as they are when the
\* batch holds no roi_mask.  (It returns nothing when the Jacobian metrics
\* raise, as they do on a box one point thick.)
C7_DvfMetricsOnMaskedCroppedFields ==
    (pc = "dvf_returned" /\ IsDvfBatch) =>
        LET p   == IF Masked THEN MaskedInBox(data_dict["dvf_pred"]) ELSE data_dict["dvf_pred"]
            g   == IF Masked THEN MaskedInBox(data_dict["dvf_gt"]) ELSE data_dict["dvf_gt"]
            jac == calculate_jacobian_metrics(p)
        IN  IF jac.err # "" THEN ret.err = jac.err
            ELSE /\ ret.err = ""
                 /\ DOMAIN ret.val = {"aee", "rmse_dvf", "folding_ratio", "mean_negative_detJ"}
                 /\ ret.val["aee"] = calculate_aee(p, g).val
                 /\ ret.val["rmse_dvf"] = calculate_rmse_dvf(p, g).val
                 /\ ret.val["folding_ratio"] = jac.val[1]
                 /\ ret.val["mean_negative_detJ"] = jac.val[2]

\* dvf_metrics_fn has returned its metrics for a batch whose roi_mask is 0 at
\* a point of its box where the predicted field is not 0.
C7_Witness ==
    /\ pc = "dvf_returned"
    /\ IsDvfBatch
    /\ Masked
    /\ ret.err = ""
    /\ OffMaskValueInBox(data_dict["dvf_pred"])
    /\ ret.val["aee"] # <<>>

\* the number of points of the bounding boxes, and of the grids, of the batch
BoxPoints ==
    SeqSum([n \in 1..Len(MaskBox) |->
        (MaskBox[n][2] - MaskBox[n][1]) * (MaskBox[n][4] - MaskBox[n][3])])

GridPoints ==
    LET m == data_dict["roi_mask"]
    IN  SeqSum([n \in 1..Len(m) |-> Len(m[n][1]) * Len(m[n][1][1])])

\* roi_mask is 1 at every point of its bounding box
MaskFillsBox ==
    \A n \in 1..Len(MaskBox) :
      \A i \in MaskBox[n][1]..(MaskBox[n][2] - 1), j \in MaskBox[n][3]..(MaskBox[n][4] - 1) :
          data_dict["roi_mask"][n][1][i][j] = 1

\* the metric f of the arrays a and b of the batch: cropped to the bounding
\* box; multiplied by roi_mask at full size; multiplied and then cropped
OfCropped(f(_, _), a, b) ==
    f(bbox_crop(data_dict[a], MaskBox), bbox_crop(data_dict[b], MaskBox)).val

OfMaskedFullSize(f(_, _), a, b) ==
    f(ArrMul(data_dict[a], data_dict["roi_mask"]).val,
      ArrMul(data_dict[b], data_dict["roi_mask"]).val).val

OfMaskedCropped(f(_, _), a, b) ==
    f(bbox_crop(ArrMul(data_dict[a], data_dict["roi_mask"]).val, MaskBox),
      bbox_crop(ArrMul(data_dict[b], data_dict["roi_mask"]).val, MaskBox)).val

\* k times a mean of square roots; k times the square of a root mean square
TimesCount(mean, k) == [b \in DOMAIN mean |-> Rat(mean[b][1] * k, mean[b][2])]

SquareTimesCount(rms, k) == Rat(rms.sqrt[1] * k, rms.sqrt[2])

\* C8, as the specification states it: for a batch with a 0/1 roi_mask, the
\* rmse of the images cropped to the bounding box is the rmse of the full-size
\* images multiplied by the mask, and likewise the aee of the fields.
C8_CropEqualsMaskedFullSize ==
    /\ (pc = "image_returned" /\ IsImageBatch /\ Masked) =>
          OfCropped(calculate_rmse, "target", "target_pred")
              = OfMaskedFullSize(calculate_rmse, "target", "target_pred")
    /\ (pc = "dvf_returned" /\ IsDvfBatch /\ Masked) =>
          OfCropped(calculate_aee, "dvf_pred", "dvf_gt")
              = OfMaskedFullSize(calculate_aee, "dvf_pred", "dvf_gt")

\* C8, amended: for a batch with a 0/1 roi_mask, the metric of the arrays
\* multiplied by the mask and cropped to the bounding box and the metric of
\* the full-size arrays multiplied by the mask have the same error sum (the
\* aee times its number of points, the squared rmse times its number of
\* elements), so they are equal when the box is the whole grid; and cropping
\* alone gives what multiplying and cropping gives when the mask is 1 at every
\* point of its box.
C8_MaskedCropKeepsErrorSum ==
    /\ (pc = "image_returned" /\ IsImageBatch /\ Masked) =>
          LET in   == OfMaskedCropped(calculate_rmse, "target", "target_pred")
              full == OfMaskedFullSize(calculate_rmse, "target", "target_pred")
          IN  /\ SquareTimesCount(in, BoxPoints) = SquareTimesCount(full, GridPoints)
              /\ BoxPoints = GridPoints => in = full
              /\ MaskFillsBox => OfCropped(calculate_rmse, "target", "target_pred") = in
    /\ (pc = "dvf_returned" /\ IsDvfBatch /\ Masked) =>
          LET in   == OfMaskedCropped(calculate_aee, "dvf_pred", "dvf_gt")
              full == OfMaskedFullSize(calculate_aee, "dvf_pred", "dvf_gt")
          IN  /\ TimesCount(in, BoxPoints) = TimesCount(full, GridPoints)
              /\ BoxPoints = GridPoints => in = full
              /\ MaskFillsBox => OfCropped(calculate_aee, "dvf_pred", "dvf_gt") = in

\* A group has returned for a batch whose roi_mask fills a box smaller than
\* the grid, with a non-zero error inside the box: the metric of the crop is
\* not that of the full-size masked arrays, their error sums are the same.
C8_Witness ==
    /\ pc = "dvf_returned"
    /\ IsDvfBatch
    /\ Masked
    /\ MaskFillsBox
    /\ BoxPoints < GridPoints
    /\ OfCropped(calculate_aee, "dvf_pred", "dvf_gt") # <<>>
    /\ OfCropped(calculate_aee, "dvf_pred", "dvf_gt")
           # OfMaskedFullSize(calculate_aee, "dvf_pred", "dvf_gt")

-----------------------------------------------------------------------------
(* Properties of the two-input metric functions called directly *)

\* the two inputs of the call differ in shape
ShapesDiffer ==
    \/ args.kind = "dvf" /\ Shape(args.x) # Shape(args.y)
    \/ args.kind = "stack" /\ SampleShape(args.mask1) # SampleShape(args.mask2)

\* C9: calculate_aee, calculate_rmse_dvf and categorical_dice_stack return no
\* value when their two inputs differ in shape: the call raises.
C9_ShapeMismatchRaises ==
    (pc \in {"calculate_aee", "calculate_rmse_dvf", "categorical_dice_stack"} /\ ShapesDiffer)
        => ret.err # ""

\* C10: for two non-empty masks the Hausdorff distance contour_distances_2d
\* returns for (image1, image2) is the one it returns for (image2, image1),
\* and it is the larger of the two directed distances between the contours.
C10_HausdorffSymmetric ==
    (pc = "contour_distances_2d" /\ ret.err = "") =>
        LET c1 == contour_pts(args.image1)
            c2 == contour_pts(args.image2)
            larger == Max2(directed_hausdorff(c1, c2), directed_hausdorff(c2, c1))
        IN  /\ ret.val[2] = contour_distances_2d(args.image2, args.image1, args.dx).val[2]
            /\ ret.val[2] = [sqrt |-> Rat(larger * args.dx * args.dx, 1)]

\* the number of pixels of slice n of a stack that carry the label
LabelCount(mask, label_class, n) ==
    Cardinality({p \in (1..Len(mask)) \X (1..Len(mask[1])) : mask[p[1]][p[2]][n] = label_class})

\* the slices of a stack that hold the label
LabelSlices(mask, label_class) ==
    {n \in 1..Len(mask[1][1]) : LabelCount(mask, label_class, n) > 0}

\* A mean of Dice scores with the stability term 1e-3 left out of every
\* denominator: the sum of c / o.
DiceSansEps(v) ==
    LET os == DOMAIN v
        RECURSIVE Sum(_)
        Sum(S) == IF S = {} THEN <<0, 1>>
                  ELSE LET o == CHOOSE x \in S : TRUE
                       IN  RatAdd(Rat(v[o][1], v[o][2] * o), Sum(S \ {o}))
    IN  Sum(os)

\* C11: the volumetric Dice of a stack with itself is 1 for a label the stack
\* holds, and the per-slice Dice of a stack with itself is 1 (already with
\* the stability term 1e-3 left out) when some slice holds the label.
C11_DiceOfAMaskWithItselfIsOne ==
    (pc \in {"categorical_dice_stack", "categorical_dice_volume"}
        /\ args.mask1 = args.mask2
        /\ LabelSlices(args.mask1, args.label_class) # {}) =>
            /\ ret.err = ""
            /\ pc = "categorical_dice_volume" => ret.val = <<1, 1>>
            /\ pc = "categorical_dice_stack" => DiceSansEps(ret.val) = <<1, 1>>

\* the regions of the label in the two stacks of the call, of one shape, share
\* no pixel
LabelsDisjoint ==
    /\ SampleShape(args.mask1) = SampleShape(args.mask2)
    /\ \A i \in 1..Len(args.mask1), j \in 1..Len(args.mask1[1]), n \in 1..Len(args.mask1[1][1]) :
          ~(args.mask1[i][j][n] = args.label_class /\ args.mask2[i][j][n] = args.label_class)

\* C12: for two stacks whose regions of the label share no pixel, the label
\* in neither stack included, the volumetric Dice and the per-slice Dice
\* are 0.
C12_DiceOfDisjointMasksIsZero ==
    (pc \in {"categorical_dice_stack", "categorical_dice_volume"} /\ LabelsDisjoint) =>
        /\ ret.err = ""
        /\ pc = "categorical_dice_volume" => ret.val = <<0, 1>>
        /\ pc = "categorical_dice_stack" => ret.val = <<>>

\* the slices of the call where both stacks hold the label
BothHold ==
    LabelSlices(args.mask1, args.label_class) \cap LabelSlices(args.mask2, args.label_class)

\* what contour_distances_2d gives for slice n of the two stacks of the call
SliceDistances(n) ==
    contour_distances_2d(SliceOf(LabelPos(args.mask1, args.label_class), n),
                         SliceOf(LabelPos(args.mask2, args.label_class), n), 1).val

\* the mean over the slices of S of the means of square roots f(n)
MeanOverSlices(f(_), S) ==
    LET RECURSIVE Sum(_, _)
        Sum(T, b) == IF T = {} THEN <<0, 1>>
                     ELSE LET n == CHOOSE x \in T : TRUE
                          IN  RatAdd(IF b \in DOMAIN f(n) THEN f(n)[b] ELSE <<0, 1>>,
                                     Sum(T \ {n}, b))
    IN  [b \in UNION {DOMAIN f(n) : n \in S} |-> RatDivInt(Sum(S, b), Cardinality(S))]

\* C13: contour_distances_stack calls contour_distances_2d once on each slice
\* where both stacks hold the label and on no other slice, and returns the
\* means of the two distances over exactly those slices, nan when there is
\* none.  (Stacks of different slice counts fail its assertion.)
C13_ContourStackSkipsEmptySlices ==
    pc = "contour_distances_stack" =>
        IF Len(args.mask1[1][1]) # Len(args.mask2[1][1]) THEN ret.err = "AssertionError"
        ELSE /\ ret.err = ""
             /\ Len(ret.calls) = Cardinality(BothHold)
             /\ {ret.calls[k] : k \in 1..Len(ret.calls)} = BothHold
             /\ IF BothHold = {} THEN ret.val = <<NaN, NaN>>
                ELSE LET dist == Evaluated([n \in BothHold |-> SliceDistances(n)])
                         mcd(n) == dist[n][1]
                         hd(n)  == RootOf(dist[n][2])
                     IN  ret.val = <<MeanOverSlices(mcd, BothHold), MeanOverSlices(hd, BothHold)>>

\* contour_distances_stack has returned for two stacks of two slices: on one
\* slice both hold the label, at a distance, on the other only the first.
C13_Witness ==
    /\ pc = "contour_distances_stack"
    /\ ret.err = ""
    /\ Len(args.mask1[1][1]) = 2
    /\ Cardinality(BothHold) = 1
    /\ LabelSlices(args.mask1, args.label_class) = {1, 2}
    /\ ret.val[2] # <<>>

\* every sample of the batch holds one vector at all its grid points
ConstantShifts(dvf) ==
    \A n \in 1..Len(dvf) : \A c \in 1..Len(dvf[n]) :
        \A i \in 1..Len(dvf[n][c]), j \in 1..Len(dvf[n][c][1]) :
            dvf[n][c][i][j] = dvf[n][c][1][1]

\* C14: for a batch whose samples are constant shifts, the Jacobian
\* determinant of every sample is 1 at every grid point (the model holds 4
\* times the determinant), and calculate_jacobian_metrics returns folding
\* ratio 0 and mean gradient magnitude 0.
C14_ConstantShiftHasUnitJacobian ==
    (pc = "calculate_jacobian_metrics" /\ ConstantShifts(args.dvf)) =>
        /\ \A n \in 1..Len(args.dvf) :
              LET det4 == calculate_jacobian_det(args.dvf[n])
              IN  \A i \in 1..Len(det4), j \in 1..Len(det4[1]) : det4[i][j] = 4
        /\ ret.err = ""
        /\ ret.val = <<<<0, 1>>, <<0, 1>>>>

\* calculate_jacobian_metrics has returned for a batch of two samples, two
\* different constant shifts that are not 0.
C14_Witness ==
    /\ pc = "calculate_jacobian_metrics"
    /\ ConstantShifts(args.dvf)
    /\ Len(args.dvf) = 2
    /\ args.dvf[1][1][1][1] # 0
    /\ args.dvf[2][2][1][1] # 0
    /\ args.dvf[1] # args.dvf[2]
    /\ ret.err = ""

\* the points of the first sample where the two fields of the call differ
DifferAt ==
    {q \in (1..Len(args.x[1][1])) \X (1..Len(args.x[1][1][1])) :
        \E c \in 1..2 : args.x[1][c][q[1]][q[2]] # args.y[1][c][q[1]][q[2]]}

\* the two fields of the call have shape (1, 2, 4, 4) and differ at one grid
\* point only, by a vector of length 3
OnePointOffByThree ==
    /\ args.kind = "dvf"
    /\ Shape(args.x) = <<1, 2, 4, 4>>
    /\ Shape(args.y) = <<1, 2, 4, 4>>
    /\ Cardinality(DifferAt) = 1
    /\ \A q \in DifferAt :
          LET e(c) == args.x[1][c][q[1]][q[2]] - args.y[1][c][q[1]][q[2]]
          IN  e(1) * e(1) + e(2) * e(2) = 9

\* C15: for two fields (1, 2, 4, 4) that differ at one grid point by a vector
\* of length 3, calculate_aee returns 3/16 and calculate_rmse_dvf returns
\* sqrt(9/16).
C15_OnePointScenario ==
    /\ (pc = "calculate_aee" /\ OnePointOffByThree) =>
          ret = Ok([b \in {1} |-> <<3, 16>>])
    /\ (pc = "calculate_rmse_dvf" /\ OnePointOffByThree) =>
          ret = Ok([sqrt |-> <<9, 16>>])

\* calculate_aee has returned for two such fields that differ in the second
\* component, at a point that is not the first.
C15_Witness ==
    /\ pc = "calculate_aee"
    /\ OnePointOffByThree
    /\ <<1, 1>> \notin DifferAt
    /\ \E q \in DifferAt : args.x[1][2][q[1]][q[2]] - args.y[1][2][q[1]][q[2]] = -3
    /\ ret.err = ""

\* C16: calculate_aee and calculate_rmse_dvf of a field with itself are 0,
\* for each field of the batch, and dvf_metrics_fn returns aee 0 and rmse_dvf
\* 0 for a batch whose ground truth is its prediction, with a roi_mask and
\* without.
C16_SelfComparisonIsZero ==
    (pc = "dvf_returned" /\ IsDvfBatch) =>
        /\ \A k \in {"dvf_pred", "dvf_gt"} :
              /\ calculate_aee(data_dict[k], data_dict[k]) = Ok(<<>>)
              /\ calculate_rmse_dvf(data_dict[k], data_dict[k]) = Ok([sqrt |-> <<0, 1>>])
        /\ (data_dict["dvf_pred"] = data_dict["dvf_gt"] /\ ret.err = "") =>
              /\ ret.val["aee"] = <<>>
              /\ ret.val["rmse_dvf"] = [sqrt |-> <<0, 1>>]

\* dvf_metrics_fn has returned for a batch whose ground truth is its
\* prediction, a field that is not 0 at a point where roi_mask is 1.
C16_Witness ==
    /\ pc = "dvf_returned"
    /\ IsDvfBatch
    /\ Masked
    /\ data_dict["dvf_pred"] = data_dict["dvf_gt"]
    /\ \E q \in Points : /\ data_dict["roi_mask"][1][1][q[1]][q[2]] = 1
                          /\ data_dict["dvf_pred"][1][1][q[1]][q[2]] # 0
    /\ ret.err = ""
    /\ ret.val["aee"] = <<>>

\* C17: every name of the default metric_groups list of the analyse command
\* is a group of the dispatcher, and a run with the default list never fails
\* with the KeyError of an unknown group name (a KeyError of the dispatcher on
\* a batch that holds every array the listed groups read).
C17_DefaultGroupsAreKnown ==
    (Measured /\ metric_groups = default_metric_groups) =>
        /\ \A k \in 1..Len(metric_groups) : metric_groups[k] \in metric_group_fns
        /\ ~RequiredArrayAbsent => metric_result_step.err # "KeyError"

\* the batch of subject s as analyse_output hands it to the dispatcher
LoadedBatch(s) ==
    LET files == inference_output_dir[s]
    IN  [k \in DOMAIN files |-> Reshape(k, files[k])]

\* C18: after the dispatcher returned or failed, the batch has the keys and
\* the array values it was loaded with, whatever the groups and with or
\* without roi_mask; every entry of the returned mapping is the value a group
\* function of this call computed on this batch, and the results returned for
\* the earlier subjects are what they were when they were returned.
C18_DispatchLeavesBatchAndEarlierResults ==
    Measured =>
        /\ DOMAIN data_dict = DOMAIN inference_output_dir[d]
        /\ data_dict = LoadedBatch(d)
        /\ DOMAIN metric_result_step.val \subseteq metric_result_step.computed
        /\ \A m \in DOMAIN metric_result_step.val :
              \E k \in 1..Len(metric_groups) :
                  LET r == GroupCall(metric_groups[k], data_dict)
                  IN  /\ r.err = ""
                      /\ m \in DOMAIN r.val
                      /\ r.val[m] = metric_result_step.val[m]
        /\ Len(metric_reporter.collected) = d - 1
        /\ \A s \in 1..(d - 1) :
              metric_reporter.collected[s] = metrics_fn(LoadedBatch(s), metric_groups).val

\* The dispatcher returned the metrics of the second subject, whose batch
\* holds a roi_mask and fields that are not 0 where the mask is 0, with the
\* displacement group among the groups.
C18_Witness ==
    /\ pc = "collect"
    /\ d = 2
    /\ HasKey(data_dict, "roi_mask")
    /\ ArrMul(data_dict["dvf_pred"], data_dict["roi_mask"]).val # data_dict["dvf_pred"]
    /\ \E k \in 1..Len(metric_groups) : metric_groups[k] = "dvf_metrics"
    /\ metric_result_step.err = ""
    /\ "aee" \in DOMAIN metric_result_step.val

=============================================================================
